---- MODULE Spec2Model ----
(***************************************************************************)
(* The JSON-RPC Client of plugin/core/rpc.py as a state machine: caller    *)
(* threads issuing send_request / execute_request / send_notification /    *)
(* send_response / exit, and the transport's delivery thread running       *)
(* receive_payload and on_transport_closed.  Statements that touch shared  *)
(* attributes of the Client are separate steps where another thread can    *)
(* observe the difference (the read and the write of `request_id += 1`,    *)
(* the re-read of self.request_id, the transport checks, the lock).        *)
(* The Client starts its transport before its constructor has created the  *)
(* other fields, so the first state is the one in which the transport may  *)
(* already deliver; on_transport_closed is two steps, its test of exiting  *)
(* and the detach done by handle_transport_failure.                        *)
(* The debouncing of document changes of plugin/core/documents.py          *)
(* (queue_did_change, and purge_did_change run by the editor's timers) is  *)
(* modelled beside it.                                                     *)
(***************************************************************************)
EXTENDS Integers, Sequences, FiniteSets, TLC

\* ------------------------------------------------------------------ bounds
\* Calls (of any kind) the caller threads start over the Client's life.
MaxCalls == 3
\* Messages the transport delivers to receive_payload.
MaxDeliver == 2
\* Calls started plus messages delivered.
MaxOps == 4
\* The same three, for the specifications checked on shorter runs.
FewCalls == 2
FewDeliver == 1
FewOps == 3
\* The same three, for the specification of the receive path: one call, and
\* a message after the message that answers it.
RecvCalls == 1
RecvDeliver == 2
RecvOps == 3
\* Calls of queue_did_change over the run, and notifications the documents
\* send through the Client meanwhile.
MaxEdits == 3
DocCalls == 1

Threads == {"t1", "t2"}
\* Buffer ids of the views being edited.
Buffers == {"b1", "b2"}

\* ------------------------------------------------------------------ values
\* Every Python value the model carries is a record [k, n]: k its kind, n the
\* tag of the call it belongs to (0: none).
Val(kind, tag) == [k |-> kind, n |-> tag]
None == Val("None", 0)
\* A key that is missing from a decoded JSON object.
Absent == Val("absent", 0)
Has(x) == x.k # "absent"

\* Python truthiness of a stored handler (`if handler:`): None is falsy.
Truthy(h) == h # None

\* dict helpers
EmptyDict == [x \in {} |-> None]
DictSet(d, key, v) == [x \in (DOMAIN d) \cup {key} |-> IF x = key THEN v ELSE d[x]]
DictDel(d, key) == [x \in (DOMAIN d) \ {key} |-> d[x]]

VARIABLES
    constructed,            \* how far Client.__init__ has got
    request_id,             \* self.request_id
    transport,              \* self.transport is not None
    exiting,                \* self.exiting
    response_handlers,      \* self._response_handlers: id -> [h, eh]
    sync_results,           \* self._sync_request_results: id -> value
    request_handlers,       \* methods registered in self._request_handlers
    notification_handlers,  \* methods registered in self._notification_handlers
    crash_handler,          \* self._crash_handler is not None
    transport_fail_handler, \* self._transport_fail_handler is not None
    lock,                   \* holder of self._sync_request_lock, or "free"
    waiters,                \* the waiters queued on self._sync_request_cvar, oldest
                            \* first: the thread of each wait not yet notified nor
                            \* taken back by its thread
    pc,                     \* per caller thread: position in its current call
    loc,                    \* per caller thread: locals and outcome of its call
    ncalls,                 \* calls started so far (tags the requests)
    expired,                \* execute_request calls that ended on their timeout
    sent,                   \* payloads handed to transport.send
    dpc,                    \* delivery thread: position
    dmsg,                   \* delivery thread: the message being processed
    dloc,                   \* delivery thread: locals of response_handler
    invoked,                \* callbacks the delivery thread invoked for dmsg
    elog,                   \* exception_log entries written for dmsg
    ndeliv,                 \* messages delivered so far
    closed,                 \* the transport has signalled close
    closedAt,               \* self.exiting and the handlers registered at the
                            \* moment it signalled close
    escaped,                \* an exception left receive_payload
    closeRaised,            \* an exception left on_transport_closed
    failures,               \* transport-failure / crash handler invocations
    budget,                 \* how many calls and deliveries the run may hold
    pending_buffer_changes, \* documents.pending_buffer_changes: buffer -> changes
    change_count,           \* per buffer: view.change_count()
    timers,                 \* callbacks scheduled with sublime.set_timeout_async
    flushed,                \* flushes done by notify_did_incremental_change
    queued,                 \* outcome of the latest queue_did_change call
    purged,                 \* outcome of the latest purge_did_change call
    nedits,                 \* queue_did_change calls so far (tags the changes)
    async,                  \* the editor's async thread inside queue_did_change
                            \* or purge_did_change: its position and locals
    notified                \* per thread: the buffer of its notify_did_change
                            \* call in progress, or of its last call if that raised

vars == <<constructed, request_id, transport, exiting, response_handlers, sync_results,
          request_handlers, notification_handlers, crash_handler,
          transport_fail_handler, lock, waiters, pc, loc, ncalls, expired, sent,
          dpc, dmsg, dloc, invoked, elog, ndeliv, closed, closedAt,
          escaped, closeRaised, failures, budget, pending_buffer_changes, change_count,
          timers, flushed, queued, purged, nedits, async, notified>>

clientVars == <<request_id, transport, exiting, response_handlers, sync_results,
                request_handlers, notification_handlers, crash_handler,
                transport_fail_handler, lock, waiters>>
callerVars == <<pc, loc, ncalls, expired>>
deliveryVars == <<dpc, dmsg, dloc, invoked, elog, ndeliv, closed, closedAt,
                  escaped, closeRaised, failures, budget>>
rpcVars == <<constructed, clientVars, callerVars, sent, deliveryVars>>
docVars == <<pending_buffer_changes, change_count, timers, flushed, queued,
             purged, nedits, async, notified>>

\* ------------------------------------------------------------------ payloads
\* request.to_payload(id) / notification.to_payload() / response.to_payload():
\* the object handed to format_request; req is the tag of the call that built it.
RequestPayload(id, req) == [kind |-> "request", id |-> id, req |-> req]
NotificationPayload(req) == [kind |-> "notification", id |-> 0, req |-> req]
ResponsePayload(req) == [kind |-> "response", id |-> 0, req |-> req]

\* send_payload: hands the message to transport.send only if a transport is set.
SendPayload(tr, out, payload) == IF tr THEN out \cup {payload} ELSE out

\* send_payload reads self.transport at its test (line 161) and again at the
\* call (line 163).  A caller that had a transport at its last step before
\* send_payload (was) and has none now lost it before line 161 (nothing is
\* sent) or between the two reads (None has no send: AttributeError); a
\* caller that had none already finds none at line 161.  Whether the send
\* raises.
SendPayloadRaises(was, tr) == IF was /\ ~tr THEN {FALSE, TRUE} ELSE {FALSE}

\* `self.request_id += 1`, the value stored from the value loaded.
NextId(loaded) == loaded + 1

\* Every operation taking a request id.
Allocates_All(op) == TRUE

\* The operations that run `self.request_id += 1` (lines 95 and 115).
Allocates(op) == op \in {"send_request", "execute_request"}

\* The counter after an operation that sends in one step.
CounterAfter(op, counter) == IF Allocates(op) THEN NextId(counter) ELSE counter

\* Locals of a call that has not started.
NoCall == [op |-> "none", req |-> 0, eh |-> FALSE, tmp |-> 0, rid |-> 0,
           noTransport |-> FALSE, timedout |-> FALSE, didSend |-> FALSE,
           sawTransport |-> FALSE, recorded |-> 0, errcalls |-> <<>>,
           failcalls |-> <<>>, ret |-> None, raised |-> FALSE]

NewCall(op, req, eh) == [NoCall EXCEPT !.op = op, !.req = req, !.eh = eh]

\* The success / error handler objects a caller passes to send_request.
Handler(req) == Val("handler", req)
ErrorHandler(req) == Val("error_handler", req)

\* ------------------------------------------------------------------ messages
\* A message as the transport delivers it.  json: json.loads accepts it;
\* method / id / result / error: the keys of the decoded object (Absent: no
\* such key).  An id is an int, a string of digits, or a string int() rejects.
Msg(json, method, id, result, error) ==
    [json |-> json, method |-> method, id |-> id, result |-> result, error |-> error]
\* The empty object: no method, no id.
NoMessage == Msg(TRUE, Absent, Absent, Absent, Absent)
NoLocals == [rid |-> 0, h |-> None, eh |-> None]
Garbage == Msg(FALSE, Absent, Absent, Absent, Absent)
WireInt(n) == Val("int", n)
WireStr(n) == Val("str", n)
WireBad == Val("bad", 0)
Method == Val("method", 0)
\* The method window/logMessage, which handle does not trace (line 229).
LogMessage == Val("method", 1)
Params == Val("params", 0)

\* int(response["id"]): defined on ints and on strings of digits.
IntOk(wid) == wid.k \in {"int", "str"}
IntOf(wid) == wid.n

\* What the server may send at this point: replies to the requests it was sent
\* (result and error carry the tag of the request they answer; the id comes
\* back as sent, or as a string of digits when only a result is carried), and
\* messages answering nothing (tag 0) whose id is the first id, an id no
\* request can have been given, or no number.
Requests == { p \in sent : p.kind = "request" }
Replies ==
    UNION { { Msg(TRUE, Absent, WireInt(p.id), res, err) :
                res \in {Absent, Val("result", p.req)},
                err \in {Absent, Val("error", p.req)} }
            \cup { Msg(TRUE, Absent, WireStr(p.id), Val("result", p.req), Absent) }
            : p \in Requests }
Unsolicited ==
    { Msg(TRUE, Absent, id, Val("result", 0), Absent) :
        id \in {WireInt(1), WireInt(MaxCalls + 1), WireBad} }
    \cup { Msg(TRUE, Absent, WireInt(MaxCalls + 1), Absent, Val("error", 0)) }
ServerCalls ==
    { Msg(TRUE, method, id, Absent, Absent) :
        method \in {Method, LogMessage}, id \in {Absent, WireInt(1)} }
    \cup { NoMessage }
Messages == {Garbage} \cup ServerCalls \cup Replies \cup Unsolicited

\* ------------------------------------------------------------------ state
Budget(calls, deliv, ops) == [calls |-> calls, deliv |-> deliv, ops |-> ops]

\* What the transport found when it signalled close; before it has.
ClosedAt(isExiting, tf, crash) ==
    [exiting |-> isExiting, transport_fail |-> tf, crash |-> crash]
NotClosed == ClosedAt(FALSE, FALSE, FALSE)

\* The shape of the Client's fields (Client.__init__) and of the threads' state.
Ids == 0..(MaxCalls + 1)
TypeOK ==
    /\ constructed \in {"start", "requests", "notifications", "fields", "done"}
    /\ request_id \in Ids
    /\ transport \in BOOLEAN
    /\ exiting \in BOOLEAN
    /\ DOMAIN response_handlers \subseteq Ids
    /\ \A i \in DOMAIN response_handlers :
          /\ response_handlers[i].h.k = "handler"
          /\ response_handlers[i].eh.k \in {"error_handler", "None"}
    /\ DOMAIN sync_results \subseteq Ids
    /\ \A i \in DOMAIN sync_results : sync_results[i].k = "result"
    /\ request_handlers \subseteq {Method}
    /\ notification_handlers \subseteq {Method}
    /\ crash_handler \in BOOLEAN
    /\ transport_fail_handler \in BOOLEAN
    /\ lock \in Threads \cup {"free", "delivery"}
    /\ waiters \in Seq(Threads)
    /\ \A i \in 1..Len(waiters), j \in 1..Len(waiters) :
          waiters[i] = waiters[j] => i = j
    /\ \A i \in 1..Len(waiters) : pc[waiters[i]] \in {"ex_wait", "ex_wake"}
    /\ \A t \in Threads :
          /\ pc[t] \in {"idle", "sr_store", "sr_check", "sr_record", "sr_send",
                        "ex_load", "ex_store", "ex_read", "ex_send", "ex_enter", "ex_wait", "ex_wake", "ex_pop",
                        "sn_send", "sp_send", "htf_fail", "htf_crash", "ndc_del"}
          /\ loc[t].req \in 0..MaxCalls
          /\ loc[t].rid \in Ids
          /\ (pc[t] = "ex_wait" => \E i \in 1..Len(waiters) : waiters[i] = t)
          /\ (lock = t <=> pc[t] = "ex_pop")
    /\ ncalls \in 0..MaxCalls
    /\ \A p \in sent : p.id \in Ids /\ p.req \in 1..MaxCalls
    /\ dpc \in {"idle", "rh", "rh_locked", "closed", "closing", "failing", "crashing", "dead"}
    /\ (lock = "delivery" <=> dpc = "rh_locked")
    /\ Len(invoked) <= 1
    /\ Len(elog) <= 2
    /\ ndeliv \in 0..MaxDeliver
    /\ closed \in BOOLEAN
    /\ closedAt \in [exiting : BOOLEAN, transport_fail : BOOLEAN, crash : BOOLEAN]
    /\ escaped \in BOOLEAN
    /\ closeRaised \in BOOLEAN
    /\ Len(failures) <= 2
    /\ budget \in {Budget(MaxCalls, MaxDeliver, MaxOps),
                   Budget(MaxCalls, FewDeliver, MaxOps),
                   Budget(FewCalls, FewDeliver, FewOps),
                   Budget(RecvCalls, RecvDeliver, RecvOps),
                   Budget(DocCalls, 0, DocCalls)}
    /\ DOMAIN pending_buffer_changes \subseteq Buffers
    /\ \A b \in DOMAIN pending_buffer_changes :
          /\ Len(pending_buffer_changes[b]) \in 0..MaxEdits
          /\ \A i \in 1..Len(pending_buffer_changes[b]) :
                pending_buffer_changes[b][i].buffer = b
    /\ \A b \in Buffers : change_count[b] \in 0..(2 * MaxEdits)
    /\ Len(timers) <= MaxEdits
    /\ Len(flushed) <= MaxEdits
    /\ queued.raised \in BOOLEAN
    /\ purged.outcome \in {"none", "nothing", "skipped", "flushed", "kept", "failed"}
    /\ nedits \in 0..MaxEdits
    /\ async.pc \in {"idle", "q_read", "q_append", "p_read", "p_flush"}
    /\ async.pc # "idle" => async.buffer \in Buffers
    /\ \A t \in Threads :
          /\ notified[t].buffer \in Buffers \cup {"none"}
          /\ notified[t].raised \in BOOLEAN
          /\ pc[t] = "ndc_del" => notified[t].buffer \in Buffers

\* ------------------------------------------------------------------ Init
\* The fields as Client.__init__ creates them (lines 74, 76-87), no call made
\* and nothing delivered.  Before its line runs, a field does not exist: the
\* variable then holds the value the line will give it, and the actions that
\* would read it are those of the unconstructed Client.
Fresh ==
    /\ request_id = 0
    /\ transport = TRUE
    /\ exiting = FALSE
    /\ response_handlers = EmptyDict
    /\ sync_results = EmptyDict
    /\ request_handlers = {}
    /\ notification_handlers = {}
    /\ crash_handler = FALSE
    /\ transport_fail_handler = FALSE
    /\ lock = "free"
    /\ waiters = <<>>
    /\ pc = [t \in Threads |-> "idle"]
    /\ loc = [t \in Threads |-> NoCall]
    /\ ncalls = 0
    /\ expired = {}
    /\ sent = {}
    /\ dpc = "idle"
    /\ dmsg = NoMessage
    /\ dloc = NoLocals
    /\ invoked = <<>>
    /\ elog = <<>>
    /\ ndeliv = 0
    /\ closed = FALSE
    /\ closedAt = NotClosed
    /\ escaped = FALSE
    /\ closeRaised = FALSE
    /\ failures = <<>>

\* Client.__init__ has handed receive_payload and on_transport_closed to the
\* transport (line 75) and has not created the fields of lines 76-87 yet.
Started == Fresh /\ constructed = "start"

\* Client.__init__ has returned and the transport has been silent meanwhile.
Constructed == Fresh /\ constructed = "done"

\* documents.py as loaded (line 104), with no edit made and no timer set.
NoQueue == [edit |-> 0, buffer |-> "none", appended |-> FALSE,
            scheduled |-> FALSE, raised |-> FALSE]
NoPurge == [edit |-> 0, buffer |-> "none", outcome |-> "none"]
NoAsync == [pc |-> "idle", buffer |-> "none", edit |-> 0, count |-> 0,
            version |-> None, len |-> 0, last |-> 0]
NoNotify == [buffer |-> "none", raised |-> FALSE]
DocumentsLoaded ==
    /\ pending_buffer_changes = [b \in {} |-> <<>>]
    /\ change_count = [b \in Buffers |-> 0]
    /\ timers = <<>>
    /\ flushed = <<>>
    /\ queued = NoQueue
    /\ purged = NoPurge
    /\ nedits = 0
    /\ async = NoAsync
    /\ notified = [t \in Threads |-> NoNotify]

Init == Started /\ DocumentsLoaded /\ budget = Budget(MaxCalls, MaxDeliver, MaxOps)
InitMany == Started /\ DocumentsLoaded /\ budget = Budget(MaxCalls, FewDeliver, MaxOps)
InitFew == Started /\ DocumentsLoaded /\ budget = Budget(FewCalls, FewDeliver, FewOps)
InitRecv == Started /\ DocumentsLoaded /\ budget = Budget(RecvCalls, RecvDeliver, RecvOps)
\* The documents use a Client whose constructor has returned.
InitDocs == Constructed /\ DocumentsLoaded /\ budget = Budget(DocCalls, 0, DocCalls)


\* ------------------------------------------------------------------ helpers
SetLoc(t, r) == loc' = [loc EXCEPT ![t] = r]
Goto(t, where) == pc' = [pc EXCEPT ![t] = where]

\* Client.__init__ has returned: the owner holds the Client and may call it.
Built == constructed = "done"

\* A caller may start another call; the transport may deliver another message.
\* The threads are interchangeable: the one that calls first is named t1.
MayCall(t) ==
    /\ Built
    /\ ncalls < budget.calls
    /\ ncalls + ndeliv < budget.ops
    /\ ncalls = 0 => t = "t1"
MayDeliver == ndeliv < budget.deliv /\ ncalls + ndeliv < budget.ops

\* ------------------------------------------------------------------ construction
\* Client.__init__, lines 76-78: the counter, the pending-handler table and
\* the request handlers.
Construct_Requests ==
    /\ constructed = "start"
    /\ constructed' = "requests"
    /\ request_id' = 0
    /\ response_handlers' = EmptyDict
    /\ request_handlers' = {}
    /\ UNCHANGED <<transport, exiting, sync_results, notification_handlers,
                   crash_handler, transport_fail_handler, lock, waiters>>
    /\ UNCHANGED <<callerVars, sent, deliveryVars, docVars>>

\* Client.__init__, line 79: the notification handlers.
Construct_Notifications ==
    /\ constructed = "requests"
    /\ constructed' = "notifications"
    /\ notification_handlers' = {}
    /\ UNCHANGED <<request_id, transport, exiting, response_handlers, sync_results,
                   request_handlers, crash_handler, transport_fail_handler,
                   lock, waiters>>
    /\ UNCHANGED <<callerVars, sent, deliveryVars, docVars>>

\* Client.__init__, lines 80-86: the sync-result table, the lock and the
\* condition, exiting, the crash, failure and error-display handlers.
Construct_Fields ==
    /\ constructed = "notifications"
    /\ constructed' = "fields"
    /\ sync_results' = EmptyDict
    /\ lock' = "free"
    /\ waiters' = <<>>
    /\ exiting' = FALSE
    /\ crash_handler' = FALSE
    /\ transport_fail_handler' = FALSE
    /\ UNCHANGED <<request_id, transport, response_handlers, request_handlers,
                   notification_handlers>>
    /\ UNCHANGED <<callerVars, sent, deliveryVars, docVars>>

\* Client.__init__, line 87: `self.settings = settings`.
Construct_Settings ==
    /\ constructed = "fields"
    /\ constructed' = "done"
    /\ UNCHANGED <<clientVars, callerVars, sent, deliveryVars, docVars>>

\* ------------------------------------------------------------------ registration
\* on_request(method, handler)
OnRequest ==
    /\ Built
    /\ Method \notin request_handlers
    /\ request_handlers' = request_handlers \cup {Method}
    /\ UNCHANGED <<request_id, transport, exiting, response_handlers, sync_results,
                   notification_handlers, crash_handler, transport_fail_handler,
                   lock, waiters, sent>>
    /\ UNCHANGED <<callerVars, deliveryVars>>
    /\ UNCHANGED <<constructed, docVars>>

\* on_notification(method, handler)
OnNotification ==
    /\ Built
    /\ Method \notin notification_handlers
    /\ notification_handlers' = notification_handlers \cup {Method}
    /\ UNCHANGED <<request_id, transport, exiting, response_handlers, sync_results,
                   request_handlers, crash_handler, transport_fail_handler,
                   lock, waiters, sent>>
    /\ UNCHANGED <<callerVars, deliveryVars>>
    /\ UNCHANGED <<constructed, docVars>>

\* set_crash_handler(handler)
SetCrashHandler ==
    /\ Built
    /\ ~crash_handler
    /\ crash_handler' = TRUE
    /\ UNCHANGED <<request_id, transport, exiting, response_handlers, sync_results,
                   request_handlers, notification_handlers, transport_fail_handler,
                   lock, waiters, sent>>
    /\ UNCHANGED <<callerVars, deliveryVars>>
    /\ UNCHANGED <<constructed, docVars>>

\* set_transport_failure_handler(handler)
SetTransportFailureHandler ==
    /\ Built
    /\ ~transport_fail_handler
    /\ transport_fail_handler' = TRUE
    /\ UNCHANGED <<request_id, transport, exiting, response_handlers, sync_results,
                   request_handlers, notification_handlers, crash_handler,
                   lock, waiters, sent>>
    /\ UNCHANGED <<callerVars, deliveryVars>>
    /\ UNCHANGED <<constructed, docVars>>

\* ------------------------------------------------------------------ send_request
\* The entry recorded at line 98: (handler, error_handler).
PendingEntry(req, eh) ==
    [h |-> Handler(req), eh |-> IF eh THEN ErrorHandler(req) ELSE None]

\* The id send_request records the handlers under, given the counter's value at
\* that moment (line 98 reads self.request_id again).
RecordKey(counter, loaded) == counter

\* The else-branch of send_request (lines 100-104): the calls of the error
\* handler.
NoTransportCalls(req, eh) ==
    IF eh THEN <<[h |-> ErrorHandler(req), arg |-> None]>> ELSE <<>>

\* What a callback does: it returns ("ok"), raises an Exception ("raise"), or
\* raises a BaseException that is no Exception, such as SystemExit or
\* KeyboardInterrupt ("exit").
Raises(outcome) == outcome # "ok"
\* `except Exception` (lines 185 and 237): what the clause catches.
Catches(outcome) == outcome = "raise"

\* error_handler(None) (line 103) is not guarded: the handler's exception
\* leaves send_request.
NoTransportRaises(eh, outcome) == eh /\ Raises(outcome)

\* Call and the load of `self.request_id += 1` (line 95).
SendRequest_Begin(t, eh) ==
    /\ pc[t] = "idle"
    /\ MayCall(t)
    /\ ncalls' = ncalls + 1
    /\ SetLoc(t, [NewCall("send_request", ncalls + 1, eh) EXCEPT
                    !.tmp = request_id, !.noTransport = ~transport])
    /\ Goto(t, "sr_store")
    /\ UNCHANGED <<clientVars, expired, sent, deliveryVars>>
    /\ UNCHANGED <<constructed, docVars>>

\* The store of `self.request_id += 1` (line 95).
SendRequest_Store(t) ==
    /\ pc[t] = "sr_store"
    /\ request_id' = NextId(loc[t].tmp)
    /\ SetLoc(t, [loc[t] EXCEPT !.tmp = 0])
    /\ Goto(t, "sr_check")
    /\ UNCHANGED <<transport, exiting, response_handlers, sync_results,
                   request_handlers, notification_handlers, crash_handler,
                   transport_fail_handler, lock, waiters, ncalls, expired, sent, deliveryVars>>
    /\ UNCHANGED <<constructed, docVars>>

\* `if self.transport is not None` (line 96): go on to line 98, or take the
\* else-branch (lines 100-104) and return.
SendRequest_Check(t, outcome) ==
    /\ pc[t] = "sr_check"
    /\ IF transport
       THEN /\ Goto(t, "sr_record")
            /\ UNCHANGED loc
       ELSE /\ SetLoc(t, [loc[t] EXCEPT
                            !.errcalls = NoTransportCalls(loc[t].req, loc[t].eh),
                            !.raised = NoTransportRaises(loc[t].eh, outcome)])
            /\ Goto(t, "idle")
    /\ UNCHANGED <<clientVars, ncalls, expired, sent, deliveryVars>>
    /\ UNCHANGED <<constructed, docVars>>

\* `self._response_handlers[self.request_id] = (handler, error_handler)`
\* (line 98).
SendRequest_Record(t) ==
    /\ pc[t] = "sr_record"
    /\ response_handlers' =
          DictSet(response_handlers, RecordKey(request_id, loc[t].tmp),
                  PendingEntry(loc[t].req, loc[t].eh))
    /\ SetLoc(t, [loc[t] EXCEPT !.recorded = RecordKey(request_id, loc[t].tmp),
                                !.sawTransport = transport])
    /\ Goto(t, "sr_send")
    /\ UNCHANGED <<request_id, transport, exiting, sync_results,
                   request_handlers, notification_handlers, crash_handler,
                   transport_fail_handler, lock, waiters, ncalls, expired, sent, deliveryVars>>
    /\ UNCHANGED <<constructed, docVars>>

\* self.send_payload(request.to_payload(self.request_id)) (lines 99, 160-163);
\* rid is the id of the payload handed to the transport.
SendRequest_Send(t) ==
    /\ pc[t] = "sr_send"
    /\ sent' = SendPayload(transport, sent, RequestPayload(request_id, loc[t].req))
    /\ \E torn \in SendPayloadRaises(loc[t].sawTransport, transport) :
          SetLoc(t, [loc[t] EXCEPT !.rid = IF transport THEN request_id ELSE 0,
                                   !.didSend = transport,
                                   !.raised = torn])
    /\ Goto(t, "idle")
    /\ UNCHANGED <<clientVars, ncalls, expired, deliveryVars>>
    /\ UNCHANGED <<constructed, docVars>>


\* ------------------------------------------------------------------ execute_request
\* `wait_for(lambda: request_id in self._sync_request_results, timeout)`: the
\* predicate, and whether wait_for stops waiting.
Predicate(rid) == rid \in DOMAIN sync_results
WaitOver(rid, timedout) == Predicate(rid) \/ timedout

\* Condition.wait, `self._waiters.remove(waiter)` with its ValueError passed
\* over: the queue without the waiter of thread t.
Unqueued(q, t) == SelectSeq(q, LAMBDA u : u # t)

\* `self._sync_request_results.pop(request_id)` inside try/except KeyError
\* (lines 123-127): the value returned to the caller, and whether the call raises.
PopResult(results, rid) == IF rid \in DOMAIN results THEN results[rid] ELSE None
PopRaises(results, rid) == FALSE

\* `if self.transport is None` (line 110): return None, or go on.
ExecuteRequest_Begin(t) ==
    /\ pc[t] = "idle"
    /\ MayCall(t)
    /\ ncalls' = ncalls + 1
    /\ SetLoc(t, [NewCall("execute_request", ncalls + 1, FALSE) EXCEPT
                    !.noTransport = ~transport])
    /\ Goto(t, IF transport THEN "ex_load" ELSE "idle")
    /\ UNCHANGED <<clientVars, expired, sent, deliveryVars>>
    /\ UNCHANGED <<constructed, docVars>>

\* The load of `self.request_id += 1` (line 115).
ExecuteRequest_Load(t) ==
    /\ pc[t] = "ex_load"
    /\ SetLoc(t, [loc[t] EXCEPT !.tmp = request_id])
    /\ Goto(t, "ex_store")
    /\ UNCHANGED <<clientVars, ncalls, expired, sent, deliveryVars>>
    /\ UNCHANGED <<constructed, docVars>>

\* The store of `self.request_id += 1` (line 115).
ExecuteRequest_Store(t) ==
    /\ pc[t] = "ex_store"
    /\ request_id' = NextId(loc[t].tmp)
    /\ SetLoc(t, [loc[t] EXCEPT !.tmp = 0])
    /\ Goto(t, "ex_read")
    /\ UNCHANGED <<transport, exiting, response_handlers, sync_results,
                   request_handlers, notification_handlers, crash_handler,
                   transport_fail_handler, lock, waiters, ncalls, expired, sent, deliveryVars>>
    /\ UNCHANGED <<constructed, docVars>>

\* `request_id = self.request_id` (line 116).
ExecuteRequest_Read(t) ==
    /\ pc[t] = "ex_read"
    /\ SetLoc(t, [loc[t] EXCEPT !.rid = request_id, !.sawTransport = transport])
    /\ Goto(t, "ex_send")
    /\ UNCHANGED <<clientVars, ncalls, expired, sent, deliveryVars>>
    /\ UNCHANGED <<constructed, docVars>>

\* self.send_payload(request.to_payload(request_id)) (lines 117, 160-163).
ExecuteRequest_Send(t) ==
    /\ pc[t] = "ex_send"
    /\ sent' = SendPayload(transport, sent, RequestPayload(loc[t].rid, loc[t].req))
    /\ \E torn \in SendPayloadRaises(loc[t].sawTransport, transport) :
          /\ SetLoc(t, [loc[t] EXCEPT !.didSend = transport, !.raised = torn])
          /\ Goto(t, IF torn THEN "idle" ELSE "ex_enter")
    /\ UNCHANGED <<clientVars, ncalls, expired, deliveryVars>>
    /\ UNCHANGED <<constructed, docVars>>

\* `with self._sync_request_cvar:` and the first evaluation of the predicate
\* (lines 120-122): go on to the pop, or release the lock and wait.
ExecuteRequest_Enter(t) ==
    /\ pc[t] = "ex_enter"
    /\ lock = "free"
    /\ IF Predicate(loc[t].rid)
       THEN lock' = t /\ Goto(t, "ex_pop") /\ UNCHANGED waiters
       ELSE waiters' = Append(waiters, t) /\ Goto(t, "ex_wait") /\ UNCHANGED lock
    /\ UNCHANGED <<request_id, transport, exiting, response_handlers, sync_results,
                   request_handlers, notification_handlers, crash_handler,
                   transport_fail_handler, loc, ncalls, expired, sent, deliveryVars>>
    /\ UNCHANGED <<constructed, docVars>>

\* The timeout of the wait elapses (line 122): the acquire of the waiter gives
\* up.  The waiter stays in the queue until its thread has the lock again.
ExecuteRequest_Timeout(t) ==
    /\ pc[t] = "ex_wait"
    /\ SetLoc(t, [loc[t] EXCEPT !.timedout = TRUE])
    /\ Goto(t, "ex_wake")
    /\ UNCHANGED <<clientVars, ncalls, expired, sent, deliveryVars>>
    /\ UNCHANGED <<constructed, docVars>>

\* The thread, notified or timed out, takes the lock again, takes its waiter
\* out of the queue if the wait timed out and no notify had taken it, and
\* wait_for evaluates the predicate (line 122): go on to the pop, or wait
\* again unless the timeout has elapsed meanwhile.
ExecuteRequest_Wake(t, elapsed) ==
    /\ pc[t] = "ex_wake"
    /\ lock = "free"
    /\ elapsed => (~loc[t].timedout /\ ~Predicate(loc[t].rid))
    /\ IF WaitOver(loc[t].rid, loc[t].timedout \/ elapsed)
       THEN /\ lock' = t
            /\ Goto(t, "ex_pop")
            /\ waiters' = Unqueued(waiters, t)
            /\ SetLoc(t, [loc[t] EXCEPT !.timedout = loc[t].timedout \/ elapsed])
       ELSE /\ waiters' = Append(Unqueued(waiters, t), t)
            /\ Goto(t, "ex_wait")
            /\ UNCHANGED <<lock, loc>>
    /\ UNCHANGED <<request_id, transport, exiting, response_handlers, sync_results,
                   request_handlers, notification_handlers, crash_handler,
                   transport_fail_handler, ncalls, expired, sent, deliveryVars>>
    /\ UNCHANGED <<constructed, docVars>>

\* The pop, the KeyError boundary and the return (lines 123-127).
ExecuteRequest_Pop(t) ==
    /\ pc[t] = "ex_pop"
    /\ lock = t
    /\ sync_results' = DictDel(sync_results, loc[t].rid)
    /\ SetLoc(t, [loc[t] EXCEPT !.ret = PopResult(sync_results, loc[t].rid),
                                !.raised = PopRaises(sync_results, loc[t].rid)])
    /\ expired' =
          IF loc[t].timedout /\ ~Predicate(loc[t].rid)
          THEN expired \cup {[req |-> loc[t].req, at |-> ncalls]}
          ELSE expired
    /\ lock' = "free"
    /\ Goto(t, "idle")
    /\ UNCHANGED <<request_id, transport, exiting, response_handlers,
                   request_handlers, notification_handlers, crash_handler,
                   transport_fail_handler, waiters, ncalls, sent, deliveryVars>>
    /\ UNCHANGED <<constructed, docVars>>

\* ------------------------------------------------------------------ notifications
\* send_payload called by a thread that found a transport at an earlier read:
\* line 163 finds it still there and sends, or finds None and raises.
SendRaises(tr) == ~tr

\* send_notification: `if self.transport is not None` (line 130); without a
\* transport the call returns (lines 133-134).
SendNotification_From(t, at) ==
    /\ pc[t] = at
    /\ MayCall(t)
    /\ ncalls' = ncalls + 1
    /\ SetLoc(t, [NewCall("send_notification", ncalls + 1, FALSE) EXCEPT
                    !.noTransport = ~transport])
    /\ Goto(t, IF transport THEN "sn_send" ELSE "idle")
    /\ request_id' = CounterAfter("send_notification", request_id)
    /\ UNCHANGED <<transport, exiting, response_handlers, sync_results,
                   request_handlers, notification_handlers, crash_handler,
                   transport_fail_handler, lock, waiters, expired, sent, deliveryVars>>
    /\ UNCHANGED constructed
SendNotification_Call(t) == SendNotification_From(t, "idle")

\* send_notification called by a user of the Client.
SendNotification_Begin(t) == SendNotification_Call(t) /\ UNCHANGED docVars

\* self.send_payload(notification.to_payload()) (lines 132, 160-163), of
\* send_notification and of the send_notification that exit() calls.
SendNotification_Send(t) ==
    /\ pc[t] = "sn_send"
    /\ sent' = SendPayload(transport, sent, NotificationPayload(loc[t].req))
    /\ \E torn \in SendPayloadRaises(TRUE, transport) :
          SetLoc(t, [loc[t] EXCEPT !.didSend = transport, !.raised = torn])
    /\ Goto(t, "idle")
    /\ UNCHANGED <<clientVars, ncalls, expired, deliveryVars>>
    /\ UNCHANGED <<constructed, docVars>>

\* send_response (lines 136-137): the test of send_payload (line 161); without
\* a transport the call returns.
SendResponse_Begin(t) ==
    /\ pc[t] = "idle"
    /\ MayCall(t)
    /\ ncalls' = ncalls + 1
    /\ SetLoc(t, [NewCall("send_response", ncalls + 1, FALSE) EXCEPT
                    !.noTransport = ~transport])
    /\ Goto(t, IF transport THEN "sp_send" ELSE "idle")
    /\ request_id' = CounterAfter("send_response", request_id)
    /\ UNCHANGED <<transport, exiting, response_handlers, sync_results,
                   request_handlers, notification_handlers, crash_handler,
                   transport_fail_handler, lock, waiters, expired, sent, deliveryVars>>
    /\ UNCHANGED <<constructed, docVars>>

\* self.transport.send(message) (line 163).
SendResponse_Send(t) ==
    /\ pc[t] = "sp_send"
    /\ sent' = SendPayload(transport, sent, ResponsePayload(loc[t].req))
    /\ SetLoc(t, [loc[t] EXCEPT !.didSend = transport,
                                !.raised = SendRaises(transport)])
    /\ Goto(t, "idle")
    /\ UNCHANGED <<clientVars, ncalls, expired, deliveryVars>>
    /\ UNCHANGED <<constructed, docVars>>

\* exit: `self.exiting = True` (line 140) and the test of send_notification
\* (line 130); the send is SendNotification_Send.
Exit_Begin(t) ==
    /\ pc[t] = "idle"
    /\ MayCall(t)
    /\ ncalls' = ncalls + 1
    /\ exiting' = TRUE
    /\ SetLoc(t, [NewCall("exit", ncalls + 1, FALSE) EXCEPT
                    !.noTransport = ~transport])
    /\ Goto(t, IF transport THEN "sn_send" ELSE "idle")
    /\ request_id' = CounterAfter("exit", request_id)
    /\ UNCHANGED <<transport, response_handlers, sync_results,
                   request_handlers, notification_handlers, crash_handler,
                   transport_fail_handler, lock, waiters, expired, sent, deliveryVars>>
    /\ UNCHANGED <<constructed, docVars>>


\* ------------------------------------------------------------------ receive_payload
\* json.loads raises ValueError on a message that is no JSON; the except clause
\* of lines 167-173 names IOError.
JsonLoadsError == "ValueError"
CaughtAsIOError(exc) == exc = "IOError"

\* The branches taken with the test for id first.
Classify_IdFirst(m) ==
    IF Has(m.id)
    THEN "response"
    ELSE (IF Has(m.method) THEN "notification" ELSE "unknown")

\* Lines 176-184: the branch receive_payload takes for a decoded object.
Classify(m) ==
    IF Has(m.method)
    THEN (IF Has(m.id) THEN "request" ELSE "notification")
    ELSE (IF Has(m.id) THEN "response" ELSE "unknown")

\* One callback invocation: the callback, its argument, the id passed as the
\* extra argument to a request handler (Absent: no extra argument), whether
\* the callback raised, and whether what it raised is no Exception.
Invocation(h, arg, id, outcome) ==
    [h |-> h, arg |-> arg, id |-> id, raised |-> Raises(outcome),
     exit |-> (Raises(outcome) /\ ~Catches(outcome))]
LogEntry(at, what) == [at |-> at, what |-> what]

\* handle (lines 226-240): the registered handler is looked up by method and
\* invoked with params and *args.
HandleInvoked(typestr, m, handlers, outcome) ==
    IF m.method \in handlers
    THEN <<Invocation(Val(typestr, 0), Params, m.id, outcome)>>
    ELSE <<>>

\* handle letting every failure of a handler through to its caller.
HandlePropagates_Through(typestr, m, handlers, outcome) ==
    m.method \in handlers /\ Raises(outcome)

\* handle's failure boundary (lines 235-238): what a raising handler leaves in
\* the log, and whether the failure leaves handle.
HandleLogged(typestr, m, handlers, outcome) ==
    IF m.method \in handlers /\ Catches(outcome)
    THEN <<LogEntry("handle", typestr)>>
    ELSE <<>>
HandlePropagates(typestr, m, handlers, outcome) ==
    m.method \in handlers /\ Raises(outcome) /\ ~Catches(outcome)

\* The outer boundary of receive_payload (lines 185-186), reached by what was
\* raised below it: what it logs, and whether the exception leaves
\* receive_payload.
OuterLogged(outcome) ==
    IF Catches(outcome) THEN <<LogEntry("receive_payload", "Exception")>> ELSE <<>>
OuterPropagates(outcome) == Raises(outcome) /\ ~Catches(outcome)

\* The delivery thread after receive_payload: back for the next message, or,
\* when an exception left receive_payload into the transport's delivery loop,
\* back or ended.
AfterDelivery(escapes) == IF escapes THEN {"idle", "dead"} ELSE {"idle"}

\* The transport (4.1 of the specification): one delivery thread hands over
\* one message at a time, none after it signalled close, and it signals close
\* at most once.
TransportDelivers == dpc = "idle" /\ ~closed
TransportCloses == dpc = "idle" /\ ~closed

Deliverable(m) ==
    /\ TransportDelivers
    /\ MayDeliver
    /\ m \in Messages
    /\ ndeliv' = ndeliv + 1
    /\ dmsg' = m

\* A message json.loads rejects (lines 165-173).  An exception that leaves
\* receive_payload reaches the transport's delivery loop, which may go on or end.
Receive_Undecodable(m) ==
    /\ Deliverable(m)
    /\ ~m.json
    /\ invoked' = <<>>
    /\ IF CaughtAsIOError(JsonLoadsError)
       THEN /\ elog' = <<LogEntry("receive_payload", "non-JSON")>>
            /\ dpc' = "idle"
            /\ UNCHANGED escaped
       ELSE /\ elog' = <<>>
            /\ escaped' = TRUE
            /\ dpc' \in AfterDelivery(TRUE)
    /\ UNCHANGED <<clientVars, callerVars, sent, dloc, closed, closedAt,
                   closeRaised, failures, budget>>
    /\ UNCHANGED <<constructed, docVars>>

\* A server request or notification (lines 176-180, 226-240).
Receive_Call(m, outcome) ==
    /\ Built
    /\ Deliverable(m)
    /\ m.json
    /\ Classify(m) \in {"request", "notification"}
    /\ LET typestr == Classify(m)
           handlers == IF typestr = "request" THEN request_handlers
                       ELSE notification_handlers
           out == IF HandlePropagates(typestr, m, handlers, outcome)
                  THEN outcome ELSE "ok"
       IN /\ invoked' = HandleInvoked(typestr, m, handlers, outcome)
          /\ elog' = HandleLogged(typestr, m, handlers, outcome) \o OuterLogged(out)
          /\ escaped' = (escaped \/ OuterPropagates(out))
          /\ dpc' \in AfterDelivery(OuterPropagates(out))
    /\ UNCHANGED <<clientVars, callerVars, sent, dloc, closed, closedAt, closeRaised, failures, budget>>
    /\ UNCHANGED <<constructed, docVars>>

\* A payload with neither method nor id (lines 183-184).
Receive_Unknown(m) ==
    /\ Deliverable(m)
    /\ m.json
    /\ Classify(m) = "unknown"
    /\ invoked' = <<>>
    /\ elog' = <<>>
    /\ dpc' = "idle"
    /\ UNCHANGED <<clientVars, callerVars, sent, dloc, closed, closedAt, escaped, closeRaised, failures, budget>>
    /\ UNCHANGED <<constructed, docVars>>

\* Whether receive_payload, given a decoded request, notification or response
\* while Client.__init__ is still running, ends in the AttributeError of a
\* field that does not exist yet: the table of lines 178 / 180 (created at
\* lines 78 / 79), or self.settings (line 87), which response_handler reads at
\* line 198 and handle at line 231 unless the method is window/logMessage
\* (line 229).  An id int() rejects raises at line 197 before that.
UnconstructedRaises(phase, m) ==
    CASE Classify(m) = "request" -> phase = "start" \/ m.method # LogMessage
      [] Classify(m) = "notification" ->
            phase \in {"start", "requests"} \/ m.method # LogMessage
      [] OTHER -> TRUE

\* A request, a notification or a response delivered before line 87 has run;
\* the exception is caught at lines 185-186.  No handler is registered yet.
Receive_Unconstructed(m) ==
    /\ ~Built
    /\ Deliverable(m)
    /\ m.json
    /\ Classify(m) # "unknown"
    /\ invoked' = <<>>
    /\ elog' = OuterLogged(IF UnconstructedRaises(constructed, m) THEN "raise" ELSE "ok")
    /\ dpc' = "idle"
    /\ UNCHANGED <<clientVars, callerVars, sent, dloc, closed, closedAt,
                   escaped, closeRaised, failures, budget>>
    /\ UNCHANGED <<constructed, docVars>>

\* ------------------------------------------------------------------ response_handler
\* The pop done with the counter's latest id instead of the response's id.
PopHandlers_Latest(d, id) ==
    IF DOMAIN d # {}
    THEN d[CHOOSE k \in DOMAIN d : \A j \in DOMAIN d : j <= k]
    ELSE [h |-> None, eh |-> None]

\* `self._response_handlers.pop(request_id, (None, None))` (line 200).
PopHandlers(d, id) == IF id \in DOMAIN d THEN d[id] ELSE [h |-> None, eh |-> None]

\* Lines 201, 209, 217: which of result / error the response carries.
ResponseKind(m) ==
    IF Has(m.result) /\ ~Has(m.error) THEN "result"
    ELSE IF ~Has(m.result) /\ Has(m.error) THEN "error"
    ELSE "invalid"

\* error.get("message") (line 216).
MessageOf(error) == Val("message", error.n)

\* A response: int(response["id"]) and the pop (lines 181-182, 197-200).
Receive_Response(m) ==
    /\ Built
    /\ Deliverable(m)
    /\ m.json
    /\ Classify(m) = "response"
    /\ invoked' = <<>>
    /\ IF IntOk(m.id)
       THEN /\ dloc' = [rid |-> IntOf(m.id),
                        h |-> PopHandlers(response_handlers, IntOf(m.id)).h,
                        eh |-> PopHandlers(response_handlers, IntOf(m.id)).eh]
            /\ response_handlers' = DictDel(response_handlers, IntOf(m.id))
            /\ elog' = <<>>
            /\ dpc' = "rh"
       ELSE /\ elog' = OuterLogged("raise")
            /\ dpc' = "idle"
            /\ UNCHANGED <<dloc, response_handlers>>
    /\ UNCHANGED <<request_id, transport, exiting, sync_results,
                   request_handlers, notification_handlers, crash_handler,
                   transport_fail_handler, lock, waiters, callerVars, sent,
                   closed, closedAt, escaped, closeRaised, failures, budget>>
    /\ UNCHANGED <<constructed, docVars>>

\* A result for a registered handler (lines 201-203).
ResponseHandler_Async(outcome) ==
    /\ dpc = "rh"
    /\ ResponseKind(dmsg) = "result"
    /\ Truthy(dloc.h)
    /\ invoked' = <<Invocation(dloc.h, dmsg.result, Absent, outcome)>>
    /\ elog' = OuterLogged(outcome)
    /\ escaped' = (escaped \/ OuterPropagates(outcome))
    /\ dpc' \in AfterDelivery(OuterPropagates(outcome))
    /\ UNCHANGED <<clientVars, callerVars, sent, dmsg, dloc, ndeliv, closed,
                   closedAt, closeRaised, failures, budget>>
    /\ UNCHANGED <<constructed, docVars>>

\* A result with no handler: `with self._sync_request_cvar:` (lines 204-205).
ResponseHandler_Lock ==
    /\ dpc = "rh"
    /\ ResponseKind(dmsg) = "result"
    /\ ~Truthy(dloc.h)
    /\ lock = "free"
    /\ lock' = "delivery"
    /\ dpc' = "rh_locked"
    /\ UNCHANGED <<request_id, transport, exiting, response_handlers, sync_results,
                   request_handlers, notification_handlers, crash_handler,
                   transport_fail_handler, waiters, callerVars, sent, dmsg, dloc,
                   invoked, elog, ndeliv, closed, closedAt, escaped, closeRaised, failures, budget>>
    /\ UNCHANGED <<constructed, docVars>>

\* Condition.notify(): the oldest waiter of the queue is released and taken
\* out.  Its thread wakes if it is still blocked in the wait; the waiter of a
\* wait that has timed out and whose thread has not had the lock since is
\* released to no effect, and no blocked thread is woken.
Notify ==
    IF waiters = <<>>
    THEN UNCHANGED <<waiters, pc>>
    ELSE /\ waiters' = Tail(waiters)
         /\ pc' = [pc EXCEPT ![Head(waiters)] = "ex_wake"]

\* The store, the notify and the release of the lock (lines 206-208).
ResponseHandler_Store ==
    /\ dpc = "rh_locked"
    /\ lock = "delivery"
    /\ sync_results' = DictSet(sync_results, dloc.rid, dmsg.result)
    /\ Notify
    /\ lock' = "free"
    /\ dpc' = "idle"
    /\ UNCHANGED <<request_id, transport, exiting, response_handlers,
                   request_handlers, notification_handlers, crash_handler,
                   transport_fail_handler, loc, ncalls, expired, sent, dmsg, dloc,
                   invoked, elog, ndeliv, closed, closedAt, escaped, closeRaised, failures, budget>>
    /\ UNCHANGED <<constructed, docVars>>

\* The error passed to the error handler only, to nobody if there is none.
ErrorInvoked_Dropped(eh, error, outcome) ==
    IF Truthy(eh) THEN <<Invocation(eh, error, Absent, outcome)>> ELSE <<>>

\* The callback an error response is routed to (lines 213-216).
ErrorInvoked(eh, error, outcome) ==
    IF Truthy(eh)
    THEN <<Invocation(eh, error, Absent, outcome)>>
    ELSE <<Invocation(Val("error_display", 0), MessageOf(error), Absent, outcome)>>

\* An error response (lines 209-216).
ResponseHandler_Error(outcome) ==
    /\ dpc = "rh"
    /\ ResponseKind(dmsg) = "error"
    /\ invoked' = ErrorInvoked(dloc.eh, dmsg.error, outcome)
    /\ elog' = OuterLogged(outcome)
    /\ escaped' = (escaped \/ OuterPropagates(outcome))
    /\ dpc' \in AfterDelivery(OuterPropagates(outcome))
    /\ UNCHANGED <<clientVars, callerVars, sent, dmsg, dloc, ndeliv, closed,
                   closedAt, closeRaised, failures, budget>>
    /\ UNCHANGED <<constructed, docVars>>

\* Both or neither of result / error (lines 217-218).
ResponseHandler_Invalid ==
    /\ dpc = "rh"
    /\ ResponseKind(dmsg) = "invalid"
    /\ dpc' = "idle"
    /\ UNCHANGED <<clientVars, callerVars, sent, dmsg, dloc, invoked, elog,
                   ndeliv, closed, closedAt, escaped, closeRaised, failures, budget>>
    /\ UNCHANGED <<constructed, docVars>>

\* ------------------------------------------------------------------ transport close
\* `if not self.exiting` (line 191).
TreatedAsFailure(isExiting) == ~isExiting

\* handle_transport_failure, lines 155-156 and lines 157-158: the call of a
\* handler that is registered.
FailureCalls(registered, which) == IF registered THEN <<which>> ELSE <<>>
FailureRaises(registered, outcome) == registered /\ Raises(outcome)

\* on_transport_closed (lines 188-189): the transport signals close and the
\* error-display handler is called, which ends the call if it raises.
OnTransportClosed(outcome) ==
    /\ constructed \in {"fields", "done"}
    /\ TransportCloses
    /\ closed' = TRUE
    /\ closedAt' = ClosedAt(exiting, transport_fail_handler, crash_handler)
    /\ dmsg' = NoMessage
    /\ invoked' = <<Invocation(Val("error_display", 0), Val("closed", 0), Absent, outcome)>>
    /\ elog' = <<>>
    /\ closeRaised' = Raises(outcome)
    /\ dpc' = IF Raises(outcome) THEN "idle" ELSE "closed"
    /\ UNCHANGED <<clientVars, callerVars, sent, dloc, ndeliv, escaped, failures, budget>>
    /\ UNCHANGED <<constructed, docVars>>

\* on_transport_closed, the test of line 191, which reads self.exiting as it
\* is by then: go on to handle_transport_failure, or return.
OnTransportClosed_Test ==
    /\ dpc = "closed"
    /\ dpc' = IF TreatedAsFailure(exiting) THEN "closing" ELSE "idle"
    /\ UNCHANGED <<clientVars, callerVars, sent, dmsg, dloc, invoked, elog, ndeliv,
                   closed, closedAt, escaped, closeRaised, failures, budget>>
    /\ UNCHANGED <<constructed, docVars>>

\* on_transport_closed before line 86 has run: self._error_display_handler
\* does not exist, and the AttributeError of line 189 leaves the call.
OnTransportClosed_Unconstructed ==
    /\ constructed \notin {"fields", "done"}
    /\ TransportCloses
    /\ closed' = TRUE
    /\ closedAt' = NotClosed
    /\ dmsg' = NoMessage
    /\ invoked' = <<>>
    /\ elog' = <<>>
    /\ closeRaised' = TRUE
    /\ UNCHANGED <<clientVars, callerVars, sent, dpc, dloc, ndeliv, escaped,
                   failures, budget>>
    /\ UNCHANGED <<constructed, docVars>>

\* handle_transport_failure called by on_transport_closed (line 192):
\* `self.transport = None` (line 154).
HandleTransportFailure ==
    /\ dpc = "closing"
    /\ transport' = FALSE
    /\ dpc' = "failing"
    /\ UNCHANGED <<request_id, exiting, response_handlers, sync_results,
                   request_handlers, notification_handlers, crash_handler,
                   transport_fail_handler, lock, waiters, callerVars, sent,
                   dmsg, dloc, invoked, elog, ndeliv, closed, closedAt,
                   escaped, closeRaised, failures, budget>>
    /\ UNCHANGED <<constructed, docVars>>

\* The transport-failure handler (lines 155-156); its exception leaves
\* handle_transport_failure and on_transport_closed.
HandleTransportFailure_Fail(outcome) ==
    /\ dpc = "failing"
    /\ failures' = failures \o FailureCalls(transport_fail_handler, "transport_fail")
    /\ closeRaised' = FailureRaises(transport_fail_handler, outcome)
    /\ dpc' = IF FailureRaises(transport_fail_handler, outcome) THEN "idle"
              ELSE "crashing"
    /\ UNCHANGED <<clientVars, callerVars, sent, dmsg, dloc, invoked, elog, ndeliv,
                   closed, closedAt, escaped, budget>>
    /\ UNCHANGED <<constructed, docVars>>

\* The crash handler (lines 157-158).
HandleTransportFailure_Crash(outcome) ==
    /\ dpc = "crashing"
    /\ failures' = failures \o FailureCalls(crash_handler, "crash")
    /\ closeRaised' = FailureRaises(crash_handler, outcome)
    /\ dpc' = "idle"
    /\ UNCHANGED <<clientVars, callerVars, sent, dmsg, dloc, invoked, elog, ndeliv,
                   closed, closedAt, escaped, budget>>
    /\ UNCHANGED <<constructed, docVars>>

\* handle_transport_failure called by the Client's owner, on a caller thread:
\* the same three steps.
CallHandleTransportFailure(t) ==
    /\ pc[t] = "idle"
    /\ MayCall(t)
    /\ ncalls' = ncalls + 1
    /\ transport' = FALSE
    /\ SetLoc(t, [NewCall("handle_transport_failure", ncalls + 1, FALSE) EXCEPT
                    !.noTransport = ~transport])
    /\ Goto(t, "htf_fail")
    /\ UNCHANGED <<request_id, exiting, response_handlers, sync_results,
                   request_handlers, notification_handlers, crash_handler,
                   transport_fail_handler, lock, waiters, expired, sent,
                   deliveryVars>>
    /\ UNCHANGED <<constructed, docVars>>

CallHandleTransportFailure_Fail(t, outcome) ==
    /\ pc[t] = "htf_fail"
    /\ SetLoc(t, [loc[t] EXCEPT
                    !.failcalls = FailureCalls(transport_fail_handler, "transport_fail"),
                    !.raised = FailureRaises(transport_fail_handler, outcome)])
    /\ Goto(t, IF FailureRaises(transport_fail_handler, outcome) THEN "idle"
               ELSE "htf_crash")
    /\ UNCHANGED <<clientVars, ncalls, expired, sent, deliveryVars>>
    /\ UNCHANGED <<constructed, docVars>>

CallHandleTransportFailure_Crash(t, outcome) ==
    /\ pc[t] = "htf_crash"
    /\ SetLoc(t, [loc[t] EXCEPT
                    !.failcalls = loc[t].failcalls \o FailureCalls(crash_handler, "crash"),
                    !.raised = FailureRaises(crash_handler, outcome)])
    /\ Goto(t, "idle")
    /\ UNCHANGED <<clientVars, ncalls, expired, sent, deliveryVars>>
    /\ UNCHANGED <<constructed, docVars>>

\* ------------------------------------------------------------------ documents
\* TextChange(view, change_count, range, text): edit stands for the range and
\* the text of the change.
TextChange(b, count, edit) == [buffer |-> b, change_count |-> count, edit |-> edit]

\* get_change_list (lines 107-113): the buffer's list, created empty if missing.
GetChangeList(pending, b) == IF b \in DOMAIN pending THEN pending[b] ELSE <<>>

\* `if change_count > len(change_list)` (line 122); else the call raises.
QueueAccepts(count, len) == count > len

\* The callback of line 130-131: purge_did_change(buffer_id, change_count).
Timer(b, count, edit) == [buffer |-> b, version |-> Val("int", count), edit |-> edit]

\* `requested_version is None or requested_version == last_edit.change_count`
\* (line 143).
PurgeFlushes(requested, last_count) ==
    requested = None \/ requested = Val("int", last_count)

\* The editor's view of a buffer (sublime, outside the repository's sources):
\* when on_modified_async publishes a change, the view's change count is at
\* least 1 and is what it was at the previous change of the buffer (a second
\* change of one modification), or more.
Advances == 0..2
ViewChangeCount(b, by) == change_count[b] + by

\* queue_did_change and purge_did_change run on the editor's async thread, one
\* call at a time; notify_did_change runs on the thread of whoever calls it,
\* and pending_buffer_changes has no lock.
AsyncIdle == async.pc = "idle"

\* The outcomes of queue_did_change.
QueueRaised(b, edit) ==
    [edit |-> edit, buffer |-> b, appended |-> FALSE, scheduled |-> FALSE,
     raised |-> TRUE]
QueueDone(b, edit) ==
    [edit |-> edit, buffer |-> b, appended |-> TRUE, scheduled |-> TRUE,
     raised |-> FALSE]

\* queue_did_change up to the test of get_change_list (lines 117-119, 108):
\* a missing list is created and stored (lines 111-112).
QueueDidChange(b, by) ==
    /\ AsyncIdle
    /\ nedits < MaxEdits
    /\ ViewChangeCount(b, by) >= 1
    /\ nedits' = nedits + 1
    /\ change_count' = [change_count EXCEPT ![b] = ViewChangeCount(b, by)]
    /\ LET call == [NoAsync EXCEPT !.buffer = b, !.edit = nedits + 1,
                                   !.count = ViewChangeCount(b, by)]
       IN IF b \in DOMAIN pending_buffer_changes
          THEN /\ async' = [call EXCEPT !.pc = "q_read"]
               /\ UNCHANGED pending_buffer_changes
          ELSE /\ async' = [call EXCEPT !.pc = "q_append"]
               /\ pending_buffer_changes' = DictSet(pending_buffer_changes, b, <<>>)
    /\ UNCHANGED <<timers, flushed, queued, purged, notified>>
    /\ UNCHANGED rpcVars

\* `return pending_buffer_changes[buffer_id]` (line 109): KeyError if the list
\* has been deleted since the test of line 108.
QueueDidChange_Read ==
    /\ async.pc = "q_read"
    /\ IF async.buffer \in DOMAIN pending_buffer_changes
       THEN /\ async' = [async EXCEPT
                           !.pc = "q_append",
                           !.len = Len(pending_buffer_changes[async.buffer])]
            /\ UNCHANGED queued
       ELSE /\ async' = NoAsync
            /\ queued' = QueueRaised(async.buffer, async.edit)
    /\ UNCHANGED <<pending_buffer_changes, change_count, timers, flushed, purged,
                   nedits, notified>>
    /\ UNCHANGED rpcVars

\* Lines 120-131: the change is appended to the list the call holds, which is
\* the buffer's pending list unless that has been deleted meanwhile, and the
\* purge is scheduled; or the call raises (line 128).
QueueDidChange_Append ==
    /\ async.pc = "q_append"
    /\ async' = NoAsync
    /\ LET b == async.buffer
       IN IF QueueAccepts(async.count, async.len)
          THEN /\ pending_buffer_changes' =
                     IF b \in DOMAIN pending_buffer_changes
                     THEN DictSet(pending_buffer_changes, b,
                                  Append(pending_buffer_changes[b],
                                         TextChange(b, async.count, async.edit)))
                     ELSE pending_buffer_changes
               /\ timers' = Append(timers, Timer(b, async.count, async.edit))
               /\ queued' = QueueDone(b, async.edit)
          ELSE /\ queued' = QueueRaised(b, async.edit)
               /\ UNCHANGED <<pending_buffer_changes, timers>>
    /\ UNCHANGED <<change_count, flushed, purged, nedits, notified>>
    /\ UNCHANGED rpcVars

\* notify_did_incremental_change (lines 210-219): with a window and a file
\* name, every pending change in list order, and the list deleted.
Flush(pending, b, by) == [by |-> by, buffer |-> b, changes |-> pending[b]]

\* The outcome of purge_did_change.
Purged(timer, outcome) ==
    [edit |-> timer.edit, buffer |-> timer.buffer, outcome |-> outcome]

\* purge_did_change, run by the oldest timer when its delay has passed: the
\* test of line 135.
PurgeDidChange ==
    /\ AsyncIdle
    /\ timers # <<>>
    /\ timers' = Tail(timers)
    /\ LET timer == Head(timers)
       IN IF timer.buffer \notin DOMAIN pending_buffer_changes
          THEN /\ purged' = Purged(timer, "nothing")
               /\ UNCHANGED async
          ELSE /\ async' = [NoAsync EXCEPT !.pc = "p_read",
                                            !.buffer = timer.buffer,
                                            !.edit = timer.edit,
                                            !.version = timer.version]
               /\ UNCHANGED purged
    /\ UNCHANGED <<pending_buffer_changes, change_count, flushed, queued, nedits,
                   notified>>
    /\ UNCHANGED rpcVars

\* Lines 139-141: AssertionError (KeyError without assertions) if the list has
\* been deleted since the test of line 135, IndexError if it is empty.
PurgeDidChange_Read ==
    /\ async.pc = "p_read"
    /\ LET b == async.buffer
       IN IF b \notin DOMAIN pending_buffer_changes
          THEN /\ purged' = Purged(async, "failed")
               /\ async' = NoAsync
          ELSE IF pending_buffer_changes[b] = <<>>
          THEN /\ purged' = Purged(async, "failed")
               /\ async' = NoAsync
          ELSE LET change_list == pending_buffer_changes[b]
               IN /\ async' = [async EXCEPT
                                 !.pc = "p_flush",
                                 !.last = change_list[Len(change_list)].change_count]
                  /\ UNCHANGED purged
    /\ UNCHANGED <<pending_buffer_changes, change_count, timers, flushed, queued,
                   nedits, notified>>
    /\ UNCHANGED rpcVars

\* Lines 143-148 and notify_did_incremental_change (lines 210-219); hasWindow:
\* the view still has a window and a file name.  The assertion of line 215
\* fails if the list has been deleted since line 140.
PurgeDidChange_Flush(hasWindow) ==
    /\ async.pc = "p_flush"
    /\ async' = NoAsync
    /\ LET b == async.buffer
       IN IF ~PurgeFlushes(async.version, async.last)
          THEN /\ purged' = Purged(async, "skipped")
               /\ UNCHANGED <<pending_buffer_changes, flushed>>
          ELSE IF ~hasWindow
          THEN /\ purged' = Purged(async, "kept")
               /\ UNCHANGED <<pending_buffer_changes, flushed>>
          ELSE IF b \notin DOMAIN pending_buffer_changes
          THEN /\ purged' = Purged(async, "failed")
               /\ UNCHANGED <<pending_buffer_changes, flushed>>
          ELSE /\ flushed' = Append(flushed,
                                Flush(pending_buffer_changes, b, async.edit))
               /\ pending_buffer_changes' = DictDel(pending_buffer_changes, b)
               /\ purged' = Purged(async, "flushed")
    /\ UNCHANGED <<change_count, timers, queued, nedits, notified>>
    /\ UNCHANGED rpcVars

\* notify_did_change (lines 240-266) up to the test of line 244: with a window
\* and a file name and no pending list, didChange goes out by
\* send_notification (line 265) if the view has a client (hasClient).
NotifyDidChange(t, b, hasWindow, hasClient) ==
    /\ pc[t] = "idle"
    /\ IF hasWindow /\ b \in DOMAIN pending_buffer_changes
       THEN /\ Goto(t, "ndc_del")
            /\ notified' = [notified EXCEPT ![t] = [buffer |-> b, raised |-> FALSE]]
            /\ UNCHANGED <<constructed, clientVars, loc, ncalls, expired, sent,
                           deliveryVars>>
       ELSE /\ notified' = [notified EXCEPT ![t] = NoNotify]
            /\ IF hasWindow /\ hasClient
               THEN SendNotification_Call(t)
               ELSE UNCHANGED rpcVars
    /\ UNCHANGED <<pending_buffer_changes, change_count, timers, flushed, queued,
                   purged, nedits, async>>

\* `del pending_buffer_changes[view.buffer_id()]` (line 245), KeyError if the
\* list has been deleted since the test of line 244, and the rest of
\* notify_did_change (lines 249-265).
NotifyDidChange_Delete(t, hasClient) ==
    /\ pc[t] = "ndc_del"
    /\ LET b == notified[t].buffer
       IN IF b \notin DOMAIN pending_buffer_changes
          THEN /\ notified' = [notified EXCEPT ![t].raised = TRUE]
               /\ Goto(t, "idle")
               /\ UNCHANGED <<constructed, clientVars, loc, ncalls, expired, sent,
                              deliveryVars, pending_buffer_changes>>
          ELSE /\ pending_buffer_changes' = DictDel(pending_buffer_changes, b)
               /\ notified' = [notified EXCEPT ![t] = NoNotify]
               /\ IF hasClient
                  THEN SendNotification_From(t, "ndc_del")
                  ELSE /\ Goto(t, "idle")
                       /\ UNCHANGED <<constructed, clientVars, loc, ncalls, expired,
                                      sent, deliveryVars>>
    /\ UNCHANGED <<change_count, timers, flushed, queued, purged, nedits, async>>

\* ------------------------------------------------------------------ specification
Outcomes == {"ok", "raise", "exit"}

\* Client.__init__ after it started the transport, and what the transport
\* delivers meanwhile.
NextConstruction ==
    \/ Construct_Requests
    \/ Construct_Notifications
    \/ Construct_Fields
    \/ Construct_Settings
    \/ \E m \in Messages : Receive_Unconstructed(m)
    \/ OnTransportClosed_Unconstructed

\* Caller threads in send_request.
NextSendRequest ==
    \/ \E t \in Threads, eh \in BOOLEAN : SendRequest_Begin(t, eh)
    \/ \E t \in Threads : SendRequest_Store(t)
    \/ \E t \in Threads, o \in Outcomes : SendRequest_Check(t, o)
    \/ \E t \in Threads : SendRequest_Record(t)
    \/ \E t \in Threads : SendRequest_Send(t)

\* Caller threads in execute_request.
NextExecuteRequest ==
    \/ \E t \in Threads : ExecuteRequest_Begin(t)
    \/ \E t \in Threads : ExecuteRequest_Load(t)
    \/ \E t \in Threads : ExecuteRequest_Store(t)
    \/ \E t \in Threads : ExecuteRequest_Read(t)
    \/ \E t \in Threads : ExecuteRequest_Send(t)
    \/ \E t \in Threads : ExecuteRequest_Enter(t)
    \/ \E t \in Threads : ExecuteRequest_Timeout(t)
    \/ \E t \in Threads, elapsed \in BOOLEAN : ExecuteRequest_Wake(t, elapsed)
    \/ \E t \in Threads : ExecuteRequest_Pop(t)

\* The delivery thread processing responses.
NextResponses ==
    \/ \E m \in Messages : Receive_Response(m)
    \/ \E o \in Outcomes : ResponseHandler_Async(o)
    \/ ResponseHandler_Lock
    \/ ResponseHandler_Store
    \/ \E o \in Outcomes : ResponseHandler_Error(o)
    \/ ResponseHandler_Invalid

\* The delivery thread processing everything else.
NextInbound ==
    \/ OnRequest
    \/ OnNotification
    \/ \E m \in Messages : Receive_Undecodable(m)
    \/ \E m \in Messages, o \in Outcomes : Receive_Call(m, o)
    \/ \E m \in Messages : Receive_Unknown(m)

\* Notifications and responses sent by callers.
NextNotify ==
    \/ \E t \in Threads : SendNotification_Begin(t)
    \/ \E t \in Threads : SendNotification_Send(t)
    \/ \E t \in Threads : SendResponse_Begin(t)
    \/ \E t \in Threads : SendResponse_Send(t)

\* Shutdown and transport failure.
NextFailure ==
    \/ SetCrashHandler
    \/ SetTransportFailureHandler
    \/ \E t \in Threads : Exit_Begin(t)
    \/ \E t \in Threads : SendNotification_Send(t)
    \/ \E t \in Threads : CallHandleTransportFailure(t)
    \/ \E t \in Threads, o \in Outcomes : CallHandleTransportFailure_Fail(t, o)
    \/ \E t \in Threads, o \in Outcomes : CallHandleTransportFailure_Crash(t, o)
    \/ \E o \in Outcomes : OnTransportClosed(o)
    \/ OnTransportClosed_Test
    \/ HandleTransportFailure
    \/ \E o \in Outcomes : HandleTransportFailure_Fail(o)
    \/ \E o \in Outcomes : HandleTransportFailure_Crash(o)

\* Edits of the open documents and the editor's timers.
NextDocuments ==
    \/ \E b \in Buffers, by \in Advances : QueueDidChange(b, by)
    \/ QueueDidChange_Read
    \/ QueueDidChange_Append
    \/ PurgeDidChange
    \/ PurgeDidChange_Read
    \/ \E hasWindow \in BOOLEAN : PurgeDidChange_Flush(hasWindow)
    \/ \E t \in Threads, b \in Buffers, hasWindow \in BOOLEAN, hasClient \in BOOLEAN :
          NotifyDidChange(t, b, hasWindow, hasClient)
    \/ \E t \in Threads, hasClient \in BOOLEAN : NotifyDidChange_Delete(t, hasClient)

Next ==
    NextConstruction \/ NextSendRequest \/ NextExecuteRequest \/ NextResponses \/ NextInbound
        \/ NextNotify \/ NextFailure \/ NextDocuments

\* Every operation of the Client.
Spec == Init /\ [][Next]_vars

\* The same operations, taken a group at a time: requests and their responses;
\* send_request and its responses; send_request with everything else that
\* arrives; send_request with what arrives and is no response; send_request
\* with the one-way sends, shutdown and transport failure.
SpecRequests ==
    InitMany /\ [][NextConstruction \/ NextSendRequest \/ NextExecuteRequest
                  \/ NextResponses]_vars
SpecAsync == InitFew /\ [][NextConstruction \/ NextSendRequest \/ NextResponses]_vars
SpecInbound ==
    InitRecv /\ [][NextConstruction \/ NextSendRequest \/ NextResponses
                      \/ NextInbound]_vars
SpecDispatch == InitFew /\ [][NextConstruction \/ NextSendRequest \/ NextInbound]_vars
SpecLifecycle ==
    InitFew /\ [][NextConstruction \/ NextSendRequest \/ NextNotify \/ NextFailure]_vars
\* Shutdown and transport failure on their own; with send_request; with
\* send_notification and send_response.
SpecShutdown == InitFew /\ [][NextConstruction \/ NextFailure]_vars
SpecDetached == InitRecv /\ [][NextConstruction \/ NextSendRequest \/ NextFailure]_vars
SpecOneWay == InitFew /\ [][NextConstruction \/ NextNotify \/ NextFailure]_vars
\* The document changes, with the notifications they send through a Client
\* that has been constructed.
SpecDocuments ==
    InitDocs /\ [][NextDocuments \/ \E t \in Threads : SendNotification_Send(t)]_vars


\* ------------------------------------------------------------------ claims
\* execute_request calls that have returned.
Returned(t) == pc[t] = "idle" /\ loc[t].op = "execute_request"

\* C1: the ids in the request payloads handed to the transport are pairwise
\* distinct, and a request whose call began earlier carries the smaller id.
C1_IdsUniqueAndIncreasing ==
    \A p \in Requests, q \in Requests :
        /\ (p.req # q.req => p.id # q.id)
        /\ (p.req < q.req => p.id < q.id)

\* C2: an execute_request call returns the result sent in reply to its own
\* request or None, never the result sent in reply to another call's request.
C2_OwnResultOnly ==
    \A t \in Threads :
        Returned(t) =>
            \A p \in Requests :
                p.req # loc[t].req => loc[t].ret # Val("result", p.req)

\* The response being handled has no pending entry and no caller is waiting
\* for its id: the id was never issued, or what it answered was consumed.
Unmatched ==
    /\ dpc \in {"rh", "rh_locked"}
    /\ ~Truthy(dloc.h)
    /\ ~Truthy(dloc.eh)
    /\ \A t \in Threads :
          ~(loc[t].op = "execute_request" /\ loc[t].rid = dloc.rid
              /\ pc[t] \in {"ex_enter", "ex_wait", "ex_wake", "ex_pop"})

\* C3: while response_handler handles a response that matches nothing, it
\* invokes no callback and leaves the pending-handler table and the
\* sync-result table as they are.
C3_UnmatchedResponseDropped ==
    [][ (Unmatched /\ dpc' # dpc) =>
            /\ invoked' = <<>>
            /\ response_handlers' = response_handlers
            /\ sync_results' = sync_results ]_vars

\* C6: an execute_request call whose response had not arrived when its timeout
\* elapsed returned None without raising, and the result sent in reply to it
\* is never returned by an execute_request call made after it had returned.
C6_TimeoutReturnsNoneAndLateResultStays ==
    \A t \in Threads :
        Returned(t) =>
            /\ ~loc[t].raised
            /\ \A x \in expired :
                  /\ (x.req = loc[t].req => loc[t].ret = None)
                  /\ (x.at < loc[t].req => loc[t].ret # Val("result", x.req))

\* C7: a success response whose id is pending pops exactly the entry recorded
\* under that id and invokes exactly that entry's success handler, once, with
\* the response's result; every other pending entry stays, uninvoked.
C7_ResolvesOnlyItsHandler ==
    [][ /\ (dpc = "idle" /\ dpc' = "rh" /\ ResponseKind(dmsg') = "result"
              /\ IntOf(dmsg'.id) \in DOMAIN response_handlers) =>
            /\ dloc'.h = response_handlers[IntOf(dmsg'.id)].h
            /\ response_handlers' =
                  [i \in (DOMAIN response_handlers) \ {IntOf(dmsg'.id)} |->
                      response_handlers[i]]
            /\ invoked' = <<>>
        /\ (dpc = "rh" /\ dpc' # "rh" /\ ResponseKind(dmsg) = "result"
              /\ Truthy(dloc.h)) =>
            /\ Len(invoked') = 1
            /\ invoked'[1].h = dloc.h
            /\ invoked'[1].arg = dmsg.result
            /\ response_handlers' = response_handlers
            /\ sync_results' = sync_results
            /\ dpc' \in {"idle", "dead"} ]_vars

\* C7 witness: a success handler has been invoked with the result of the
\* response while another entry is still pending.
C7_Witness ==
    /\ dpc = "idle"
    /\ ResponseKind(dmsg) = "result"
    /\ Len(invoked) = 1
    /\ invoked[1].h.k = "handler"
    /\ invoked[1].arg = dmsg.result
    /\ DOMAIN response_handlers # {}


\* How often on_transport_closed has invoked handler h.
FailureCount(h) == Cardinality({ i \in 1..Len(failures) : failures[i] = h })

\* C4: after a close that exit() preceded, on_transport_closed has invoked
\* neither the transport-failure handler nor the crash handler; once
\* on_transport_closed has ended for a close that no exit() preceded, it has
\* invoked the transport-failure handler and the crash handler, as far as they
\* were registered at the close, once each; never a handler twice, never the
\* crash handler before the transport-failure handler.
C4_FailureHandlersOnlyWithoutExit ==
    /\ (closed /\ closedAt.exiting) => failures = <<>>
    /\ (closed /\ ~closedAt.exiting /\ dpc = "idle") =>
          /\ closedAt.transport_fail => FailureCount("transport_fail") = 1
          /\ closedAt.crash => FailureCount("crash") = 1
    /\ FailureCount("transport_fail") <= 1
    /\ FailureCount("crash") <= 1
    /\ \A i \in 1..Len(failures), j \in 1..Len(failures) :
          (failures[i] = "transport_fail" /\ failures[j] = "crash") => i < j

\* C5: a send_request call made while no transport was attached has handed
\* nothing to the transport, has recorded no pending entry, has invoked its
\* error handler once with None (not at all if it was given none), and has
\* returned without raising.
C5_NoTransportPath ==
    \A t \in Threads :
        (pc[t] = "idle" /\ loc[t].op = "send_request" /\ loc[t].noTransport) =>
            /\ \A p \in sent : p.req # loc[t].req
            /\ \A i \in DOMAIN response_handlers :
                  response_handlers[i].h # Handler(loc[t].req)
            /\ loc[t].errcalls =
                  IF loc[t].eh
                  THEN <<[h |-> ErrorHandler(loc[t].req), arg |-> None]>>
                  ELSE <<>>
            /\ ~loc[t].raised

\* C8: for a message that is no JSON, receive_payload logs and returns: no
\* exception leaves it, the delivery thread comes back for the next message,
\* no callback is invoked and the Client's fields, the transport among them,
\* are as they were.
C8_UndecodableContained ==
    [][ (ndeliv' = ndeliv + 1 /\ ~dmsg'.json) =>
            /\ elog' = <<LogEntry("receive_payload", "non-JSON")>>
            /\ escaped' = escaped
            /\ dpc' = "idle"
            /\ invoked' = <<>>
            /\ clientVars' = clientVars ]_vars

\* A request or notification is delivered and its registered handler raises.
HandlerRaises ==
    /\ ndeliv' = ndeliv + 1
    /\ Classify(dmsg') \in {"request", "notification"}
    /\ invoked' # <<>>
    /\ invoked'[1].raised

\* The failure was caught by handle (the one log entry is handle's), nothing
\* left receive_payload, the delivery thread comes back for the next message,
\* the transport is as it was, and both tables are as they were.
HandlerContained ==
    /\ elog' = <<LogEntry("handle", Classify(dmsg'))>>
    /\ dpc' = "idle"
    /\ escaped' = escaped
    /\ transport' = transport
    /\ response_handlers' = response_handlers
    /\ sync_results' = sync_results

C10_DetachedAfterClose == (closed /\ dpc \notin {"closed", "closing"}) => ~transport

\* The operations through which callers hand payloads to the transport.
SendOps == {"send_request", "execute_request", "send_notification", "send_response"}

\* C11: once exit() has been called or the transport has signalled close, no
\* send_request, execute_request, send_notification or send_response hands a
\* payload to the transport (the one payload still handed over is exit()'s
\* own notification), and a detached transport is never attached again.
C11_SendsOnlyWhileConnected ==
    [][ /\ ((exiting \/ closed) /\ sent' # sent) =>
              \E t \in Threads : loc'[t] # loc[t] /\ loc'[t].op \notin SendOps
        /\ (~transport => ~transport') ]_vars

\* C12: an error response for a pending id invokes exactly one callback: the
\* error handler recorded under that id, with the error object, or, if none
\* was recorded, the error-display handler with the error's message.
C12_ErrorResponseRouted ==
    [][ /\ (dpc = "idle" /\ dpc' = "rh" /\ ResponseKind(dmsg') = "error"
              /\ IntOf(dmsg'.id) \in DOMAIN response_handlers) =>
            /\ dloc'.h = response_handlers[IntOf(dmsg'.id)].h
            /\ dloc'.eh = response_handlers[IntOf(dmsg'.id)].eh
            /\ invoked' = <<>>
        /\ (dpc = "rh" /\ dpc' # "rh" /\ ResponseKind(dmsg) = "error"
              /\ Truthy(dloc.h)) =>
            /\ Len(invoked') = 1
            /\ IF Truthy(dloc.eh)
               THEN invoked'[1].h = dloc.eh /\ invoked'[1].arg = dmsg.error
               ELSE /\ invoked'[1].h = Val("error_display", 0)
                    /\ invoked'[1].arg = MessageOf(dmsg.error)
            /\ sync_results' = sync_results
            /\ dpc' \in {"idle", "dead"} ]_vars

\* C12 witness: an error response for an id pending without an error handler
\* has been handled, and the error-display handler got the error's message.
C12_Witness ==
    /\ dpc = "idle"
    /\ ResponseKind(dmsg) = "error"
    /\ Truthy(dloc.h)
    /\ ~Truthy(dloc.eh)
    /\ Len(invoked) = 1
    /\ invoked[1].h = Val("error_display", 0)
    /\ invoked[1].arg = MessageOf(dmsg.error)

\* C13: a response carrying both result and error, or neither, leaves the
\* pending-handler table and the sync-result table as they are and invokes
\* no callback.
C13_InvalidResponseDropped ==
    [][ /\ (dpc = "idle" /\ ndeliv' = ndeliv + 1 /\ Classify(dmsg') = "response"
              /\ ResponseKind(dmsg') = "invalid") =>
            /\ response_handlers' = response_handlers
            /\ sync_results' = sync_results
            /\ invoked' = <<>>
        /\ (dpc = "rh" /\ dpc' # "rh" /\ ResponseKind(dmsg) = "invalid") =>
            /\ response_handlers' = response_handlers
            /\ sync_results' = sync_results
            /\ invoked' = <<>> ]_vars

\* The callbacks `handle` is to invoke for a message carrying a method: the
\* handler registered for it, with params and with the extra argument given.
Dispatched(typestr, registry, m, extra) ==
    IF m.method \in registry
    THEN /\ Len(invoked') = 1
         /\ invoked'[1].h = Val(typestr, 0)
         /\ invoked'[1].arg = Params
         /\ invoked'[1].id = extra
    ELSE invoked' = <<>>

\* C14: a decoded object with method and id is dispatched to the request
\* handlers with (params, id); with method and no id, to the notification
\* handlers with params only; with id and no method it is handed to
\* response_handler (which goes on to its pop, or fails at once and is logged
\* at the outer boundary: an id that is no number, a Client whose constructor
\* has not finished); with neither, nothing is invoked and nothing changes.
C14_ClassifiedByKeys ==
    [][ (ndeliv' = ndeliv + 1 /\ dmsg'.json) =>
            /\ (Has(dmsg'.method) /\ Has(dmsg'.id)) =>
                  /\ Dispatched("request", request_handlers, dmsg', dmsg'.id)
                  /\ dpc' \in {"idle", "dead"}
                  /\ response_handlers' = response_handlers
            /\ (Has(dmsg'.method) /\ ~Has(dmsg'.id)) =>
                  /\ Dispatched("notification", notification_handlers, dmsg', Absent)
                  /\ dpc' \in {"idle", "dead"}
                  /\ response_handlers' = response_handlers
            /\ (~Has(dmsg'.method) /\ Has(dmsg'.id)) =>
                  /\ invoked' = <<>>
                  /\ IF IntOk(dmsg'.id) /\ constructed = "done"
                     THEN dpc' = "rh" /\ dloc'.rid = IntOf(dmsg'.id)
                     ELSE dpc' = "idle" /\ elog' = OuterLogged("raise")
            /\ (~Has(dmsg'.method) /\ ~Has(dmsg'.id)) =>
                  /\ invoked' = <<>>
                  /\ dpc' = "idle"
                  /\ clientVars' = clientVars
                  /\ sent' = sent ]_vars

\* C14 witness: after a first message, a server request has been dispatched to
\* its registered handler with its id while a request of the Client is pending.
C14_Witness ==
    /\ dpc = "idle"
    /\ ndeliv = 2
    /\ Has(dmsg.method)
    /\ Has(dmsg.id)
    /\ Len(invoked) = 1
    /\ invoked[1].h = Val("request", 0)
    /\ invoked[1].id = dmsg.id
    /\ ~invoked[1].raised
    /\ DOMAIN response_handlers # {}

\* A decoded message that receive_payload has nothing to do for: no known
\* shape, a method nobody registered for, or a response whose id is no
\* number, is not pending, or that carries both or neither of result / error.
BadArrival(m) ==
    \/ (~Has(m.method) /\ ~Has(m.id))
    \/ (Has(m.method) /\ Has(m.id) /\ m.method \notin request_handlers)
    \/ (Has(m.method) /\ ~Has(m.id) /\ m.method \notin notification_handlers)
    \/ /\ ~Has(m.method)
       /\ Has(m.id)
       /\ \/ ~IntOk(m.id)
          \/ IntOf(m.id) \notin DOMAIN response_handlers
          \/ (~Has(m.result) /\ ~Has(m.error))
          \/ (Has(m.result) /\ Has(m.error))

\* No exception leaves receive_payload for a decoded message, and the
\* delivery thread comes back for the next one.
Contained ==
    /\ (ndeliv' = ndeliv + 1 /\ dmsg'.json) =>
          escaped' = escaped /\ dpc' \in {"idle", "rh"}
    /\ dpc \in {"rh", "rh_locked"} =>
          escaped' = escaped /\ dpc' \in {"idle", "rh", "rh_locked"}

\* C15: a decoded message never ends the receive loop, and one that
\* receive_payload has nothing to do for leaves the Client as if it had not
\* been received: the pending-handler table, the sync-result table, the
\* counter and the transport are as they were.
C15_BadMessageContained ==
    [][ /\ Contained
        /\ (ndeliv' = ndeliv + 1 /\ dmsg'.json /\ BadArrival(dmsg')) =>
              /\ response_handlers' = response_handlers
              /\ sync_results' = sync_results
              /\ request_id' = request_id
              /\ transport' = transport
        /\ (dpc \in {"rh", "rh_locked"} /\ dpc' # dpc
              /\ (ResponseKind(dmsg) = "invalid" \/ Unmatched)) =>
              /\ response_handlers' = response_handlers
              /\ sync_results' = sync_results ]_vars

\* C16: a send_notification or send_response call leaves the id counter, the
\* pending-handler table and the sync-result table as they were, with a
\* transport attached or without.
C16_NoIdNoPendingEntry ==
    [][ \A t \in Threads :
          (loc'[t] # loc[t] /\ loc'[t].op \in {"send_notification", "send_response"}) =>
              /\ request_id' = request_id
              /\ response_handlers' = response_handlers
              /\ sync_results' = sync_results ]_vars

\* C16 witness: one thread's send_response went out and, after the transport
\* was lost, the other's send_notification found none and sent nothing.
C16_Witness ==
    \E t \in Threads, u \in Threads :
        /\ pc[t] = "idle"
        /\ loc[t].op = "send_response"
        /\ loc[t].didSend
        /\ pc[u] = "idle"
        /\ loc[u].op = "send_notification"
        /\ loc[u].noTransport
        /\ ~loc[u].didSend

\* C17: when the delivery thread stores the result for an id and notifies, the
\* one caller blocked in the wait for that id is the thread that is woken,
\* whichever other threads wait on the condition for other ids.
C17_NotifyWakesTheWaiter ==
    [][ (dpc = "rh_locked" /\ dpc' = "idle") =>
            \A t \in Threads :
                (/\ pc[t] = "ex_wait"
                 /\ loc[t].rid = dloc.rid
                 /\ \A u \in Threads \ {t} :
                       pc[u] = "ex_wait" => loc[u].rid # dloc.rid) =>
                    pc'[t] = "ex_wake" ]_vars

\* C18: the id counter, the pending-handler table and the sync-result table
\* change only in steps of a thread that holds the lock of the condition.
C18_SharedStateUnderLock ==
    [][ (\/ request_id' # request_id
         \/ response_handlers' # response_handlers
         \/ sync_results' # sync_results) => lock # "free" ]_vars

\* The id under which the request of call x went to the server.
IdOf(x) == { p.id : p \in { q \in Requests : q.req = x.req } }

\* C19: the result sent in reply to an execute_request call that had returned
\* on its timeout, once stored under the call's id, stays in the sync-result
\* table: no later step removes the entry.
C19_LateResultLingers ==
    [][ \A x \in expired : \A i \in IdOf(x) :
            (i \in DOMAIN sync_results /\ sync_results[i] = Val("result", x.req)) =>
                i \in DOMAIN sync_results' ]_vars

\* C20: a send_request call made with no exit() before it ends with its
\* payload handed to the transport and its handlers recorded, or with nothing
\* sent, nothing recorded and its error handler invoked once; it raises
\* nothing of its own.
C20_SentOrFailed ==
    \A t \in Threads :
        (pc[t] = "idle" /\ loc[t].op = "send_request" /\ ~exiting) =>
            /\ loc[t].raised => loc[t].errcalls # <<>>
            /\ loc[t].didSend => loc[t].recorded # 0
            /\ ~loc[t].didSend =>
                  /\ loc[t].recorded = 0
                  /\ loc[t].errcalls = NoTransportCalls(loc[t].req, loc[t].eh)

\* C21: before the first response is processed, every id that a send_request
\* call has handed to the transport in its payload has a pending entry: the
\* handlers were recorded under that id before the payload went out.
C21_RecordedBeforeSent ==
    ndeliv = 0 =>
        \A t \in Threads :
            (pc[t] = "idle" /\ loc[t].op = "send_request" /\ loc[t].didSend) =>
                loc[t].rid \in DOMAIN response_handlers

\* The error response being handled answers the request of an execute_request
\* call whose caller has not yet got past its wait.
AnswersBlockedCaller ==
    /\ dpc = "rh"
    /\ ResponseKind(dmsg) = "error"
    /\ \E t \in Threads :
          /\ loc[t].op = "execute_request"
          /\ loc[t].req = dmsg.error.n
          /\ pc[t] \in {"ex_enter", "ex_wait", "ex_wake"}

\* C22: an error response answering an execute_request passes the error's
\* message to the error-display handler and to nobody else, stores nothing in
\* the sync-result table and wakes no waiter; and a caller that leaves its wait
\* with no result stored under its id has timed out and returns None.
C22_ErrorReplyToSyncRequest ==
    [][ /\ (AnswersBlockedCaller /\ dpc' # dpc) =>
              /\ \E outcome \in Outcomes :
                    invoked' = <<Invocation(Val("error_display", 0),
                                            MessageOf(dmsg.error), Absent, outcome)>>
              /\ sync_results' = sync_results
              /\ waiters' = waiters
              /\ pc' = pc
        /\ \A t \in Threads :
              (pc[t] = "ex_pop" /\ pc'[t] = "idle" /\ ~Predicate(loc[t].rid)) =>
                  /\ loc[t].timedout
                  /\ loc'[t].ret = None
                  /\ ~loc'[t].raised ]_vars

\* The last change of a buffer's pending list.
LastQueued(b) == pending_buffer_changes[b][Len(pending_buffer_changes[b])]

\* A queue_did_change call ends in this step; a purge_did_change call does.
QueueEnds == async.pc \in {"q_read", "q_append"} /\ async'.pc = "idle"
PurgeEnds ==
    \/ async.pc \in {"p_read", "p_flush"} /\ async'.pc = "idle"
    \/ async.pc = "idle" /\ async'.pc = "idle" /\ Len(timers') < Len(timers)

\* C23 (queueing): a queue_did_change call appends one change, carrying the
\* view's change count, to the buffer's pending list, schedules a purge with
\* that count, and does not raise.
QueuedAndScheduled ==
    QueueEnds =>
        LET b == async.buffer
        IN /\ ~queued'.raised
           /\ b \in DOMAIN pending_buffer_changes'
           /\ pending_buffer_changes'[b] =
                 Append(GetChangeList(pending_buffer_changes, b),
                        TextChange(b, async.count, async.edit))
           /\ timers' = Append(timers, Timer(b, async.count, async.edit))

\* C23 (purging): a timer that finds no pending list changes nothing and does
\* not fail; a timer flushes only if its version is the change count of the
\* last queued change, and then it is that change's own timer, the flush
\* holds every pending change in queue order and the pending list is removed.
PurgedByLastTimer ==
    PurgeEnds =>
        LET b == purged'.buffer
        IN /\ purged'.outcome # "failed"
           /\ purged'.outcome = "nothing" =>
                 /\ pending_buffer_changes' = pending_buffer_changes
                 /\ flushed' = flushed
           /\ flushed' # flushed =>
                 /\ async.version = Val("int", LastQueued(b).change_count)
                 /\ async.edit = LastQueued(b).edit
                 /\ flushed' = Append(flushed,
                                 [by |-> async.edit, buffer |-> b,
                                  changes |-> pending_buffer_changes[b]])
                 /\ b \notin DOMAIN pending_buffer_changes'

\* C23: document-change debouncing, queueing and purging together.
C23_Debounced == [][QueuedAndScheduled /\ PurgedByLastTimer]_vars

\* The two halves of C23 on their own.
QueuedAlways == [][QueuedAndScheduled]_vars
PurgedAlways == [][PurgedByLastTimer]_vars

====
